---- MODULE Spec2Model ----
(***************************************************************************)
(* Wake-steering optimizer: the exhaustive / continuous optimization       *)
(* engine (wake_steering_optimizer.py), the forecast validator and search  *)
(* range builder (forecast_validator.py) and the two-stage orchestrator    *)
(* (predictive_optimization.py).                                           *)
(*                                                                         *)
(* Units.  Python floats are modelled in fixed point, exactly:             *)
(*   wind speed            tenths of m/s        (8.0 m/s  = 80)            *)
(*   wind direction        whole degrees                                   *)
(*   turbulence intensity  thousandths          (0.06     = 60)            *)
(*   relative thresholds   percent              (0.12     = 12)            *)
(*   predicted yaw         half degrees         (-14.0    = -28)           *)
(*   farm power            abstract whole units                            *)
(* An optional value (Python None) is the empty tuple, a present value x   *)
(* is the one-element tuple <<x>>.                                         *)
(***************************************************************************)
EXTENDS Integers, Sequences, FiniteSets, TLC

VARIABLES
    \* --- WakeSteeringOptimizer object (wake_steering_optimizer.py) ---
    baseline_power,          \* self.baseline_power
    baseline_turbine_powers, \* self.baseline_turbine_powers (the yaw vector they were simulated at)
    optimal_yaw_angles,      \* self.optimal_yaw_angles
    optimal_power,           \* self.optimal_power
    optimal_turbine_powers,  \* self.optimal_turbine_powers (the yaw vector they were simulated at)
    all_results,             \* self.all_results
    oracle,                  \* the FLORIS model: outcome of every yaw vector simulated so far
    \* --- frame of the optimization call in progress ---
    pc,                      \* "idle", "enumerate", "de", "slsqp"
    method,                  \* the method of the optimizer called last
    search_ranges,           \* argument of optimize_with_ranges
    yaw_combinations,        \* list(product(*ranges))
    idx,                     \* number of loop iterations completed
    best_power,
    best_yaw,
    calls,                   \* yaw vectors handed to run_simulation by the current call, in order
    run_start,               \* len(self.all_results) when the current call started
    runs,                    \* optimization calls started so far
    ret,                     \* value returned by the last finished call
    raised,                  \* exception raised by the last finished call ("" if none)
    \* --- is_forecast_valid ---
    forecast, actual, thresholds, mode, validation,
    \* --- calculate_search_range_from_prediction ---
    predicted_yaws, confidence, recommendation, range_result,
    \* --- get_recommended_yaw_range ---
    wind_speed, turbulence_intensity, yaw_range,
    \* --- PredictiveOptimizer (predictive_optimization.py) ---
    forecast_data,           \* the day-ahead forecast given to stage1_predict
    sphinx_raised,           \* self.sphinx.predict_yaw_angles raised in stage1_predict
    prediction,              \* what stage1_predict returned
    actual_conditions,       \* argument of stage2_optimize
    validation_mode,         \* argument of stage2_optimize
    stage2_validation,       \* the validation stage2_optimize computed
    strategy,                \* which _run_* method stage2_optimize called
    engine_call,             \* the call stage2 made on self.optimizer
    stage,                   \* "new", "predicted", "optimized", "failed"
    \* --- WakeSteeringOptimizer.__init__ and _setup_floris ---
    ctor_args,               \* wind_direction and wind_speed as passed (None when omitted)
    fmodel_conditions,       \* the wind conditions self.fmodel was set to
    \* --- fetch_location (nrel_fetch.py) ---
    max_retries,             \* argument of fetch_location
    attempt,                 \* loop variable of "for attempt in range(max_retries)"
    backoff,                 \* seconds the next time.sleep will wait
    sleeps,                  \* the waits made so far, in order
    requests,                \* requests.get calls made on the JSON endpoint
    last_error,              \* the RequestException caught last ("" if none)
    fetch_pc                 \* "idle", "request", "sleep", "fetched", "raised"

engineVars == <<baseline_power, baseline_turbine_powers, optimal_yaw_angles,
                optimal_power, optimal_turbine_powers, all_results, oracle,
                pc, method, search_ranges, yaw_combinations, idx, best_power, best_yaw,
                calls, run_start, runs, ret, raised>>
validatorVars == <<forecast, actual, thresholds, mode, validation>>
rangeVars == <<predicted_yaws, confidence, recommendation, range_result>>
yawRangeVars == <<wind_speed, turbulence_intensity, yaw_range>>
predictiveVars == <<forecast_data, sphinx_raised, prediction, actual_conditions, validation_mode,
                    stage2_validation, strategy, engine_call, stage>>
florisVars == <<ctor_args, fmodel_conditions>>
fetchVars == <<max_retries, attempt, backoff, sleeps, requests, last_error, fetch_pc>>
nonEngineVars == <<validatorVars, rangeVars, yawRangeVars, predictiveVars,
                   florisVars, fetchVars>>
vars == <<engineVars, validatorVars, rangeVars, yawRangeVars, predictiveVars,
          florisVars, fetchVars>>

None == << >>
Some(x) == <<x>>

Max(a, b) == IF a >= b THEN a ELSE b
Min(a, b) == IF a <= b THEN a ELSE b
Abs(a) == IF a >= 0 THEN a ELSE -a

(***************************************************************************)
(* Bounds of the model.                                                    *)
(***************************************************************************)
NTurbines == 2      \* turbines of the layout handed to the optimizer
MaxPower == 2       \* farm power values are 0 .. MaxPower
YawHi == 1          \* search ranges are drawn from -YawHi .. YawHi
MaxCombos == 4      \* largest Cartesian product enumerated in one call
MaxRuns == 2        \* optimization calls made on one optimizer

(***************************************************************************)
(* The optimization engine: wake_steering_optimizer.py                     *)
(***************************************************************************)
n_turbines == NTurbines

Powers == 0 .. MaxPower
Ok(p) == [ok |-> TRUE, power |-> p]
Failure == [ok |-> FALSE, power |-> 0]

\* a baseline simulated at the test yaw instead of at zero yaw
ZeroYawAtTestAngle == [i \in 1 .. n_turbines |-> 5]

\* baseline_yaw = [0] * self.n_turbines
ZeroYaw == [i \in 1 .. n_turbines |-> 0]
TestYaw == [i \in 1 .. n_turbines |-> 5]

\* a yaw vector of any length is simulated
AnyShape(yaw) == TRUE

\* yaw_array = np.array([yaw_angles]); fmodel.set(yaw_angles=yaw_array): the
\* model takes one angle per turbine of the layout and rejects any other shape
ShapeAccepted(yaw) == Len(yaw) = n_turbines

\* What FLORIS answers for a yaw vector: the recorded outcome if the vector was
\* simulated before (the simulation is a deterministic function of the yaw
\* vector for a configured model), otherwise any power, or a failed simulation.
OracleOutcomes(yaw) ==
    IF yaw \in DOMAIN oracle THEN {oracle[yaw]}
    ELSE IF ~ShapeAccepted(yaw) THEN {Failure}
    ELSE {Ok(p) : p \in Powers} \cup {Failure}

\* a failed simulation handed on as if it had returned its default power
ReturnedAnyway(out) == TRUE

\* run_simulation has no try / except: it returns the summed power unless
\* fmodel.set / fmodel.run raised, and then the exception leaves the caller too
Returned(out) == out.ok

Remember(orc, yaw, out) == IF yaw \in DOMAIN orc THEN orc ELSE (yaw :> out) @@ orc

\* range(ymin, ymax): the upper end left out
PyRangeExclusive(ymin, ymax) == [k \in 1 .. (ymax - ymin) |-> ymin + k - 1]

\* range(ymin, ymax + 1)
PyRange(ymin, ymax) == [k \in 1 .. (ymax - ymin + 1) |-> ymin + k - 1]

\* list(itertools.product(*ranges)): the rightmost range advances fastest.
RECURSIVE Product(_)
Product(ranges) ==
    IF ranges = << >> THEN << << >> >>
    ELSE LET head == ranges[1]
             rest == Product(Tail(ranges))
             m == Len(rest)
         IN [k \in 1 .. (Len(head) * m) |->
                <<head[((k - 1) \div m) + 1]>> \o rest[((k - 1) % m) + 1]]

Ranges(sr) == [i \in 1 .. Len(sr) |-> PyRange(sr[i][1], sr[i][2])]

\* "if power >= best_power": a later combination of equal power replaces the best
BetterOrEqual(power, best) == power >= best

\* "if power > best_power" of the enumeration loop
Better(power, best) == power > best

\* best_power = 0 / best_yaw = None before the loop
InitialBestPower == 0

\* improvement = ((optimal - baseline) / baseline) * 100 on numpy floats: a zero
\* baseline gives inf or nan (a RuntimeWarning), not an exception.
ImprovementPercent(opt, base) ==
    IF base = 0
    THEN (IF opt = 0 THEN [kind |-> "nan", num |-> 0, den |-> 1]
          ELSE [kind |-> "inf", num |-> 0, den |-> 1])
    ELSE [kind |-> "num", num |-> (opt - base) * 100, den |-> base]

\* the dictionary get_results builds (optimal_yaw_angles and turbine_powers are
\* the stored fields, which may still be None)
ResultsDict(base, opt, yaws, tp, all) ==
    [baseline_power |-> base,
     optimal_power |-> opt,
     total_power |-> opt,
     optimal_yaw_angles |-> yaws,
     turbine_powers |-> tp,
     improvement_percent |-> ImprovementPercent(opt, base),
     power_gain |-> opt - base,
     all_results |-> all]

\* bounds = [(-25, 25)] * self.n_turbines
YawBound == 25

\* points of the continuous box the numerical solver may return
SolverAngles == {-YawBound, 0, YawBound}
SolverPoints == [1 .. n_turbines -> SolverAngles]

\* search spaces a caller may pass: a list of (min, max) pairs, well formed or
\* not, one per turbine or one short of that, enumerating at most MaxCombos
\* combinations
YawPairs == (-YawHi .. YawHi) \X (-YawHi .. YawHi)
Width(pair) == Max(0, pair[2] - pair[1] + 1)
RECURSIVE Combos(_)
Combos(sr) == IF sr = << >> THEN 1 ELSE Width(sr[1]) * Combos(Tail(sr))
SearchSpaces ==
    {sr \in UNION {[1 .. k -> YawPairs] : k \in (n_turbines - 1) .. n_turbines} :
        Combos(sr) <= MaxCombos}

\* WakeSteeringOptimizer.__init__: the result storage
EngineInit ==
    /\ baseline_power = None
    /\ baseline_turbine_powers = None
    /\ optimal_yaw_angles = None
    /\ optimal_power = None
    /\ optimal_turbine_powers = None
    /\ all_results = << >>
    /\ oracle = << >>
    /\ pc = "idle"
    /\ method = ""
    /\ search_ranges = << >>
    /\ yaw_combinations = << >>
    /\ idx = 0
    /\ best_power = InitialBestPower
    /\ best_yaw = None
    /\ calls = << >>
    /\ run_start = 0
    /\ runs = 0
    /\ ret = None
    /\ raised = ""

\* get_results(): the precondition check and the dictionary
GetResults(base, opt, yaws, tp, all) ==
    IF opt = None THEN [raised |-> "ValueError", ret |-> None]
    ELSE IF base = None THEN [raised |-> "TypeError", ret |-> None]
    ELSE [raised |-> "",
          ret |-> Some(ResultsDict(base[1], opt[1], yaws, tp, all))]

\* the baseline block shared by the three optimize methods: run_simulation and
\* get_turbine_powers at the all-zero yaw vector
Baseline(out) ==
    /\ oracle' = Remember(oracle, ZeroYaw, out)
    /\ IF Returned(out)
       THEN /\ baseline_power' = Some(out.power)
            /\ baseline_turbine_powers' = Some(ZeroYaw)
       ELSE UNCHANGED <<baseline_power, baseline_turbine_powers>>

\* an exception leaves the call: nothing is returned
Raise(exc) ==
    /\ pc' = "idle"
    /\ raised' = exc
    /\ ret' = None

\* optimize_with_ranges, lines 133-152: baseline, ranges, combinations, best_*
BeginOptimizeWithRanges ==
    /\ UNCHANGED nonEngineVars
    /\ pc = "idle"
    /\ runs < MaxRuns
    /\ \E sr \in SearchSpaces, out \in OracleOutcomes(ZeroYaw) :
        /\ runs' = runs + 1
        /\ method' = "optimize_with_ranges"
        /\ run_start' = Len(all_results)
        /\ search_ranges' = sr
        /\ Baseline(out)
        /\ IF Returned(out)
           THEN /\ calls' = <<ZeroYaw, ZeroYaw>>
                /\ yaw_combinations' = Product(Ranges(sr))
                /\ idx' = 0
                /\ best_power' = InitialBestPower
                /\ best_yaw' = None
                /\ pc' = "enumerate"
                /\ ret' = None /\ raised' = ""
           ELSE /\ calls' = <<ZeroYaw>>
                /\ Raise("OracleFailure")
                /\ UNCHANGED <<yaw_combinations, idx, best_power, best_yaw>>
    /\ UNCHANGED <<optimal_yaw_angles, optimal_power, optimal_turbine_powers, all_results>>

\* one iteration of the enumeration loop, lines 154-167
EnumerateStep ==
    /\ UNCHANGED nonEngineVars
    /\ pc = "enumerate"
    /\ idx < Len(yaw_combinations)
    /\ LET yaw_angles == yaw_combinations[idx + 1] IN
       \E out \in OracleOutcomes(yaw_angles) :
        /\ oracle' = Remember(oracle, yaw_angles, out)
        /\ calls' = Append(calls, yaw_angles)
        /\ IF Returned(out)
           THEN /\ all_results' = Append(all_results,
                                    [yaw_angles |-> yaw_angles, power |-> out.power])
                /\ IF Better(out.power, best_power)
                   THEN /\ best_power' = out.power
                        /\ best_yaw' = Some(yaw_angles)
                   ELSE UNCHANGED <<best_power, best_yaw>>
                /\ idx' = idx + 1
                /\ UNCHANGED <<pc, ret, raised>>
           ELSE /\ Raise("OracleFailure")
                /\ UNCHANGED <<all_results, best_power, best_yaw, idx>>
    /\ UNCHANGED <<baseline_power, baseline_turbine_powers, optimal_yaw_angles,
                   optimal_power, optimal_turbine_powers, search_ranges,
                   yaw_combinations, run_start, runs, method>>

\* after the loop, lines 175-183: store the optimum and return get_results()
FinishOptimizeWithRanges ==
    /\ UNCHANGED nonEngineVars
    /\ pc = "enumerate"
    /\ idx = Len(yaw_combinations)
    /\ optimal_power' = Some(best_power)
    /\ IF best_yaw = None
       THEN \* list(None) raises TypeError; optimal_power is already stored
            /\ Raise("TypeError")
            /\ UNCHANGED <<optimal_yaw_angles, optimal_turbine_powers, calls>>
       ELSE /\ optimal_yaw_angles' = best_yaw
            /\ optimal_turbine_powers' = best_yaw
            /\ calls' = Append(calls, best_yaw[1])
            /\ LET r == GetResults(baseline_power, Some(best_power), best_yaw,
                                   best_yaw, all_results)
               IN /\ ret' = r.ret
                  /\ raised' = r.raised
            /\ pc' = "idle"
    /\ UNCHANGED <<baseline_power, baseline_turbine_powers, all_results, oracle,
                   search_ranges, yaw_combinations, idx, best_power, best_yaw,
                   run_start, runs, method>>

\* optimize(), lines 203-221: baseline, then the test simulation at 5 degrees
BeginOptimize ==
    /\ UNCHANGED nonEngineVars
    /\ pc = "idle"
    /\ runs < MaxRuns
    /\ \E out \in OracleOutcomes(ZeroYaw), test \in OracleOutcomes(TestYaw) :
        /\ method' = "optimize"
        /\ runs' = runs + 1
        /\ run_start' = Len(all_results)
        /\ IF Returned(out)
           THEN /\ baseline_power' = Some(out.power)
                /\ baseline_turbine_powers' = Some(ZeroYaw)
                /\ oracle' = Remember(Remember(oracle, ZeroYaw, out), TestYaw, test)
                /\ calls' = <<ZeroYaw, ZeroYaw, TestYaw>>
                /\ IF Returned(test)
                   THEN pc' = "de" /\ ret' = None /\ raised' = ""
                   ELSE Raise("OracleFailure")
           ELSE /\ Baseline(out)
                /\ calls' = <<ZeroYaw>>
                /\ Raise("OracleFailure")
    /\ UNCHANGED <<optimal_yaw_angles, optimal_power, optimal_turbine_powers,
                   all_results, search_ranges, yaw_combinations, idx, best_power,
                   best_yaw>>

\* optimize_fast(), lines 276-282: baseline
BeginOptimizeFast ==
    /\ UNCHANGED nonEngineVars
    /\ pc = "idle"
    /\ runs < MaxRuns
    /\ \E out \in OracleOutcomes(ZeroYaw) :
        /\ method' = "optimize_fast"
        /\ runs' = runs + 1
        /\ run_start' = Len(all_results)
        /\ Baseline(out)
        /\ IF Returned(out)
           THEN /\ calls' = <<ZeroYaw, ZeroYaw>>
                /\ pc' = "slsqp"
                /\ ret' = None /\ raised' = ""
           ELSE /\ calls' = <<ZeroYaw>>
                /\ Raise("OracleFailure")
    /\ UNCHANGED <<optimal_yaw_angles, optimal_power, optimal_turbine_powers,
                   all_results, search_ranges, yaw_combinations, idx, best_power,
                   best_yaw>>

\* the numerical solver (differential_evolution / minimize) has run: it hands
\* back a point x of the box with fun = objective(x) = -run_simulation(x), or a
\* simulation it asked for failed.  Lines 230-261 and 284-296.
Solve(at) ==
    /\ UNCHANGED nonEngineVars
    /\ pc = at
    /\ \E x \in SolverPoints : \E out \in OracleOutcomes(x) :
        /\ oracle' = Remember(oracle, x, out)
        /\ calls' = Append(calls, x)
        /\ IF Returned(out)
           THEN /\ optimal_yaw_angles' = Some(x)
                /\ optimal_power' = Some(out.power)
                /\ optimal_turbine_powers' = Some(x)
                /\ LET r == GetResults(baseline_power, Some(out.power), Some(x),
                                       Some(x), all_results)
                   IN /\ ret' = r.ret
                      /\ raised' = r.raised
                /\ pc' = "idle"
           ELSE /\ Raise("OracleFailure")
                /\ UNCHANGED <<optimal_yaw_angles, optimal_power, optimal_turbine_powers>>
    /\ UNCHANGED <<baseline_power, baseline_turbine_powers, all_results,
                   search_ranges, yaw_combinations, idx, best_power, best_yaw,
                   run_start, runs, method>>

FinishOptimize == Solve("de")

FinishOptimizeFast == Solve("slsqp")

\* a caller asks for the stored results between optimization calls
CallGetResults ==
    /\ UNCHANGED nonEngineVars
    /\ pc = "idle"
    /\ method' = "get_results"
    /\ LET r == GetResults(baseline_power, optimal_power, optimal_yaw_angles,
                           optimal_turbine_powers, all_results)
       IN /\ ret' = r.ret
          /\ raised' = r.raised
    /\ UNCHANGED <<baseline_power, baseline_turbine_powers, optimal_yaw_angles,
                   optimal_power, optimal_turbine_powers, all_results, oracle, pc,
                   search_ranges, yaw_combinations, idx, best_power, best_yaw,
                   calls, run_start, runs>>

Next ==
    \/ BeginOptimizeWithRanges
    \/ EnumerateStep
    \/ FinishOptimizeWithRanges
    \/ BeginOptimize
    \/ FinishOptimize
    \/ BeginOptimizeFast
    \/ FinishOptimizeFast
    \/ CallGetResults

\* the other components, not in use
ValidatorIdle ==
    /\ forecast = None /\ actual = None /\ thresholds = None
    /\ mode = "conservative" /\ validation = None
RangeIdle ==
    /\ predicted_yaws = << >> /\ confidence = << >>
    /\ recommendation = "NARROW_SEARCH" /\ range_result = None
YawRangeIdle ==
    /\ wind_speed = 0 /\ turbulence_intensity = 0 /\ yaw_range = None
PredictiveIdle ==
    /\ forecast_data = None /\ sphinx_raised = FALSE
    /\ prediction = None /\ actual_conditions = None
    /\ validation_mode = "conservative" /\ stage2_validation = None
    /\ strategy = "" /\ engine_call = None /\ stage = "new"

\* config.WIND_DIRECTION (degrees) and config.WIND_SPEED (tenths of m/s)
WIND_DIRECTION == 270
WIND_SPEED == 80

\* turbulence_intensities=[0.06] of _setup_floris, in thousandths
SetupTurbulence == 60

\* "arg or default": None, 0 and 0.0 are all false in Python
OrDefault(arg, default) ==
    IF arg = None \/ arg = Some(0) THEN default ELSE arg[1]

\* __init__ lines 28-29 and the fmodel.set(...) call of _setup_floris
SetupFloris(args) ==
    [wind_speed |-> OrDefault(args.wind_speed, WIND_SPEED),
     wind_direction |-> OrDefault(args.wind_direction, WIND_DIRECTION),
     turbulence_intensity |-> SetupTurbulence]

\* WakeSteeringOptimizer() constructed without arguments
FlorisDefault ==
    /\ ctor_args = [wind_direction |-> None, wind_speed |-> None]
    /\ fmodel_conditions = Some(SetupFloris(ctor_args))

\* fetch_location not called
FetchIdle ==
    /\ max_retries = 0 /\ attempt = 0 /\ backoff = 1 /\ sleeps = << >>
    /\ requests = 0 /\ last_error = "" /\ fetch_pc = "idle"

Init == EngineInit /\ ValidatorIdle /\ RangeIdle /\ YawRangeIdle /\ PredictiveIdle
        /\ FlorisDefault /\ FetchIdle

Spec == Init /\ [][Next]_vars

(***************************************************************************)
(* The forecast validator: forecast_validator.py                           *)
(***************************************************************************)
\* conservative thresholds: +-1.0 m/s or +-12 %, +-8 degrees, +-0.02
TOLERANCE_THRESHOLDS ==
    [wind_speed |-> [absolute |-> 10, relative |-> 12],
     wind_direction |-> [absolute |-> 8],
     turbulence_intensity |-> [absolute |-> 20]]

\* tight thresholds: +-0.5 m/s or +-8 %, +-5 degrees, +-0.015
TOLERANCE_THRESHOLDS_TIGHT ==
    [wind_speed |-> [absolute |-> 5, relative |-> 8],
     wind_direction |-> [absolute |-> 5],
     turbulence_intensity |-> [absolute |-> 15]]

\* relaxed thresholds: +-1.5 m/s or +-15 %, +-12 degrees, +-0.03
TOLERANCE_THRESHOLDS_RELAXED ==
    [wind_speed |-> [absolute |-> 15, relative |-> 15],
     wind_direction |-> [absolute |-> 12],
     turbulence_intensity |-> [absolute |-> 30]]

\* "Select thresholds": custom thresholds override the mode; any mode other
\* than tight and relaxed selects the conservative set
SelectThresholds(th, m) ==
    IF th = None
    THEN (IF m = "tight" THEN TOLERANCE_THRESHOLDS_TIGHT
          ELSE IF m = "relaxed" THEN TOLERANCE_THRESHOLDS_RELAXED
          ELSE TOLERANCE_THRESHOLDS)
    ELSE th[1]

\* speed_diff_rel: the quotient speed_diff_abs / forecast speed, kept as a
\* fraction; 0 when the forecast speed is not positive
SpeedDiffRel(speed_diff_abs, forecast_speed) ==
    IF forecast_speed > 0
    THEN [num |-> speed_diff_abs, den |-> forecast_speed]
    ELSE [num |-> 0, den |-> 1]

\* the relative threshold read as a whole number instead of hundredths
FracLeqWhole(frac, percent) == frac.num <= percent * frac.den

\* fraction <= percent / 100
FracLeqPercent(frac, percent) == frac.num * 100 <= percent * frac.den

\* speed check with "and" in place of "or"
SpeedOkBoth(speed_diff_abs, speed_diff_rel, t) ==
    /\ speed_diff_abs <= t.wind_speed.absolute
    /\ FracLeqPercent(speed_diff_rel, t.wind_speed.relative)

\* speed_ok = (speed_diff_abs <= absolute or speed_diff_rel <= relative)
SpeedOk(speed_diff_abs, speed_diff_rel, t) ==
    \/ speed_diff_abs <= t.wind_speed.absolute
    \/ FracLeqPercent(speed_diff_rel, t.wind_speed.relative)

\* direction difference without the wrap-around line
DirDiffNoWrap(a, f) == Abs(a - f)

\* dir_diff = abs(actual - forecast); dir_diff = min(dir_diff, 360 - dir_diff)
DirDiff(a, f) == Min(Abs(a - f), 360 - Abs(a - f))

\* the elif taken with "or" in place of "and"
RecommendationEitherOk(valid, speed_ok, direction_ok) ==
    IF valid THEN "NARROW_SEARCH"
    ELSE IF speed_ok \/ direction_ok THEN "MODERATE_SEARCH"
    ELSE "FULL_SEARCH"

\* "Determine recommendation"
Recommendation(valid, speed_ok, direction_ok) ==
    IF valid THEN "NARROW_SEARCH"
    ELSE IF speed_ok /\ direction_ok THEN "MODERATE_SEARCH"
    ELSE "FULL_SEARCH"

\* is_forecast_valid(forecast, actual, thresholds, mode)
IsForecastValid(f, a, th, m) ==
    LET t == SelectThresholds(th, m)
        speed_diff_abs == Abs(a.wind_speed - f.wind_speed)
        speed_diff_rel == SpeedDiffRel(speed_diff_abs, f.wind_speed)
        speed_ok == SpeedOk(speed_diff_abs, speed_diff_rel, t)
        dir_diff == DirDiff(a.wind_direction, f.wind_direction)
        direction_ok == dir_diff <= t.wind_direction.absolute
        ti_diff == Abs(a.turbulence_intensity - f.turbulence_intensity)
        turbulence_ok == ti_diff <= t.turbulence_intensity.absolute
        valid == speed_ok /\ direction_ok /\ turbulence_ok
    IN [valid |-> valid,
        speed_ok |-> speed_ok,
        direction_ok |-> direction_ok,
        turbulence_ok |-> turbulence_ok,
        deviations |-> [speed_abs |-> speed_diff_abs,
                        speed_rel |-> speed_diff_rel,
                        direction |-> dir_diff,
                        turbulence |-> ti_diff],
        recommendation |-> Recommendation(valid, speed_ok, direction_ok),
        threshold_mode |-> m]

\* get_recommended_yaw_range with the band limits included in the lower band
GetRecommendedYawRangeInclusive(ws, ti) ==
    IF ws <= 70 /\ ti <= 60 THEN <<-12, 12>>
    ELSE IF ws <= 70 /\ ti <= 120 THEN <<-10, 10>>
    ELSE IF ws <= 70 THEN <<-8, 8>>
    ELSE IF ws <= 110 /\ ti <= 60 THEN <<-8, 8>>
    ELSE IF ws <= 110 /\ ti <= 120 THEN <<-5, 5>>
    ELSE IF ws <= 110 THEN <<-3, 3>>
    ELSE IF ti > 120 THEN <<0, 0>>
    ELSE <<-3, 3>>

\* get_recommended_yaw_range(wind_speed, turbulence_intensity)
GetRecommendedYawRange(ws, ti) ==
    IF ws < 70 /\ ti < 60 THEN <<-12, 12>>
    ELSE IF ws < 70 /\ ti < 120 THEN <<-10, 10>>
    ELSE IF ws < 70 THEN <<-8, 8>>
    ELSE IF ws < 110 /\ ti < 60 THEN <<-8, 8>>
    ELSE IF ws < 110 /\ ti < 120 THEN <<-5, 5>>
    ELSE IF ws < 110 THEN <<-3, 3>>
    ELSE IF ti > 120 THEN <<0, 0>>
    ELSE <<-3, 3>>

\* int(x) for x given in half degrees: truncation toward zero
IntOfHalves(h) == IF h >= 0 THEN h \div 2 ELSE -((-h) \div 2)

\* base range with medium treated like low
BaseRangeMediumAsLow(conf) == IF conf = "high" THEN 1 ELSE 3

\* "Base range on confidence": anything but high and medium counts as low
BaseRange(conf) ==
    IF conf = "high" THEN 1
    ELSE IF conf = "medium" THEN 2
    ELSE 3

\* "Adjust based on validation result" (NARROW_SEARCH or MODERATE_SEARCH)
Delta(conf, rec) ==
    IF rec = "NARROW_SEARCH" THEN BaseRange(conf) ELSE BaseRange(conf) + 1

\* the (yaw_min, yaw_max) tuple of one turbine, lines 196-204
TurbineRange(pred_yaw, delta) ==
    <<Max(-15, IntOfHalves(pred_yaw - 2 * delta)),
      Min(15, IntOfHalves(pred_yaw + 2 * delta))>>

\* calculate_search_range_from_prediction(predicted_yaws, confidence,
\* validation_result): the loop runs over zip(predicted_yaws, confidence), and
\* the FULL_SEARCH return sits inside the loop body
CalculateSearchRange(pyaws, conf, rec) ==
    LET n == Min(Len(pyaws), Len(conf)) IN
    IF n = 0 THEN Some(<< >>)
    ELSE IF rec \notin {"NARROW_SEARCH", "MODERATE_SEARCH"} THEN None
    ELSE Some([i \in 1 .. n |-> TurbineRange(pyaws[i], Delta(conf[i], rec))])


(***************************************************************************)
(* The validator functions applied to inputs drawn from bounded sets        *)
(***************************************************************************)
Condition(ws, wd, ti) ==
    [wind_speed |-> ws, wind_direction |-> wd, turbulence_intensity |-> ti]

\* wind conditions tried: speeds in tenths of m/s, directions in degrees,
\* turbulence in thousandths
Speeds == {0, 20, 29, 80, 102, 200, 215}
Directions == {0, 1, 90, 270, 285, 359}
Turbulences == {60, 75, 90}
Conditions == {Condition(ws, wd, ti) : ws \in Speeds, wd \in Directions, ti \in Turbulences}

Modes == {"conservative", "tight", "relaxed", "strict"}

\* the thresholds argument: absent, or a caller's own set (here: no tolerance)
ThresholdArgs ==
    {None,
     Some([wind_speed |-> [absolute |-> 0, relative |-> 0],
           wind_direction |-> [absolute |-> 0],
           turbulence_intensity |-> [absolute |-> 0]])}

ValidatorInit ==
    /\ forecast \in Conditions
    /\ actual \in Conditions
    /\ thresholds \in ThresholdArgs
    /\ mode \in Modes
    /\ validation = None

\* every pair of whole-degree directions, other conditions equal
DirectionInit ==
    /\ \E d \in 0 .. 359 : forecast = Condition(80, d, 60)
    /\ \E d \in 0 .. 359 : actual = Condition(80, d, 60)
    /\ thresholds = None
    /\ mode = "conservative"
    /\ validation = None

\* validation = is_forecast_valid(forecast, actual, thresholds, mode)
Validate ==
    /\ validation = None
    /\ validation' = Some(IsForecastValid(forecast, actual, thresholds, mode))
    /\ UNCHANGED <<forecast, actual, thresholds, mode>>
    /\ UNCHANGED <<engineVars, rangeVars, yawRangeVars, predictiveVars, florisVars, fetchVars>>

InitValidator ==
    EngineInit /\ ValidatorInit /\ RangeIdle /\ YawRangeIdle /\ PredictiveIdle
        /\ FlorisDefault /\ FetchIdle

SpecValidator == InitValidator /\ [][Validate]_vars

InitDirection ==
    EngineInit /\ DirectionInit /\ RangeIdle /\ YawRangeIdle /\ PredictiveIdle
        /\ FlorisDefault /\ FetchIdle

SpecDirection == InitDirection /\ [][Validate]_vars

\* predicted yaw angles tried, in half degrees (-20, -16, -14.5, -14, -0.5, 0,
\* 0.5, 2.5, 14, 14.5, 15, 17, 20 degrees)
PredictedYawValues == {-40, -32, -29, -28, -1, 0, 1, 5, 28, 29, 30, 34, 40}
ConfidenceValues == {"high", "medium", "low", "unsure"}
Recommendations == {"NARROW_SEARCH", "MODERATE_SEARCH", "FULL_SEARCH"}

MaxListLen == 2     \* longest predicted_yaws / confidence list tried

SeqsUpTo(S, n) == UNION {[1 .. k -> S] : k \in 0 .. n}

RangeInit ==
    /\ predicted_yaws \in SeqsUpTo(PredictedYawValues, MaxListLen)
    /\ confidence \in SeqsUpTo(ConfidenceValues, MaxListLen)
    /\ recommendation \in Recommendations
    /\ range_result = None

\* range_result = calculate_search_range_from_prediction(predicted_yaws,
\* confidence, {'recommendation': recommendation})
BuildRange ==
    /\ range_result = None
    /\ range_result' = Some(CalculateSearchRange(predicted_yaws, confidence, recommendation))
    /\ UNCHANGED <<predicted_yaws, confidence, recommendation>>
    /\ UNCHANGED <<engineVars, validatorVars, yawRangeVars, predictiveVars, florisVars, fetchVars>>

InitRange ==
    EngineInit /\ ValidatorIdle /\ RangeInit /\ YawRangeIdle /\ PredictiveIdle
        /\ FlorisDefault /\ FetchIdle

SpecRange == InitRange /\ [][BuildRange]_vars

MaxSpeed == 130     \* wind speeds tried: 0 .. 13.0 m/s in tenths

YawRangeInit ==
    /\ wind_speed \in 0 .. MaxSpeed
    /\ turbulence_intensity \in 0 .. 1000
    /\ yaw_range = None

\* yaw_range = get_recommended_yaw_range(wind_speed, turbulence_intensity)
RecommendYawRange ==
    /\ yaw_range = None
    /\ yaw_range' = Some(GetRecommendedYawRange(wind_speed, turbulence_intensity))
    /\ UNCHANGED <<wind_speed, turbulence_intensity>>
    /\ UNCHANGED <<engineVars, validatorVars, rangeVars, predictiveVars, florisVars, fetchVars>>

InitYawRange ==
    EngineInit /\ ValidatorIdle /\ RangeIdle /\ YawRangeInit /\ PredictiveIdle
        /\ FlorisDefault /\ FetchIdle

SpecYawRange == InitYawRange /\ [][RecommendYawRange]_vars


(***************************************************************************)
(* The two-stage orchestrator: predictive_optimization.py                  *)
(***************************************************************************)
\* conditions as the orchestrator receives them: turbulence_intensity may be
\* missing from the dictionary
OptionalTurbulences == {None, Some(60), Some(90)}
StageConditions ==
    {Condition(ws, wd, ti) : ws \in {80, 102}, wd \in {270, 285}, ti \in OptionalTurbulences}
        \cup {Condition(115, 270, Some(130))}

\* conditions.get('turbulence_intensity', 0.08)
TurbulenceOrDefault(c) ==
    IF c.turbulence_intensity = None THEN 80 ELSE c.turbulence_intensity[1]

\* self.optimizer = WakeSteeringOptimizer(): n_turbines is
\* len(config.TURBINE_POSITIONS)
ConfigTurbines == 5

\* what _parse_sphinx_response hands back: four yaws (half degrees) and four
\* confidence words, or its defaults
ParsedPredictions ==
    {[predicted_yaws |-> py, confidence |-> cf, search_range |-> 2, fallback |-> FALSE] :
        py \in {<<0, 0, 0, 0>>, <<-28, 4, 0, 40>>},
        cf \in {<<"medium", "medium", "medium", "medium">>,
                <<"high", "medium", "low", "unsure">>}}

\* a fallback carrying the parser's default confidence
FallbackPredictionMedium(yaw_max) ==
    [predicted_yaws |-> <<0, 0, 0, 0>>,
     confidence |-> <<"medium", "medium", "medium", "medium">>,
     search_range |-> yaw_max,
     fallback |-> TRUE]

\* the dictionary of the except branch of stage1_predict
FallbackPrediction(yaw_max) ==
    [predicted_yaws |-> <<0, 0, 0, 0>>,
     confidence |-> <<"low", "low", "low", "low">>,
     search_range |-> yaw_max,
     fallback |-> TRUE]

\* stage1_predict(forecast_data): the predictor answers, or it raises and the
\* fallback dictionary is returned
Stage1Predict ==
    /\ stage = "new"
    /\ \E fd \in StageConditions :
        /\ forecast_data' = Some(fd)
        /\ LET yr == GetRecommendedYawRange(fd.wind_speed, TurbulenceOrDefault(fd)) IN
           \/ /\ sphinx_raised' = FALSE
              /\ \E p \in ParsedPredictions : prediction' = Some(p)
           \/ /\ sphinx_raised' = TRUE
              /\ prediction' = Some(FallbackPrediction(yr[2]))
    /\ stage' = "predicted"
    /\ UNCHANGED <<actual_conditions, validation_mode, stage2_validation, strategy,
                   engine_call>>
    /\ UNCHANGED <<engineVars, validatorVars, rangeVars, yawRangeVars, florisVars, fetchVars>>

\* _run_narrow_search: the ranges handed to optimize_with_ranges
NarrowSearchCall(pred, v) ==
    [method |-> "optimize_with_ranges",
     search_ranges |-> CalculateSearchRange(pred.predicted_yaws, pred.confidence,
                                            v.recommendation)]

\* _run_moderate_search: medium confidence forced, then each range widened by 1
ModerateSearchCall(pred, v) ==
    LET sr == CalculateSearchRange(pred.predicted_yaws,
                                   <<"medium", "medium", "medium", "medium">>,
                                   v.recommendation)
    IN [method |-> "optimize_with_ranges",
        search_ranges |-> Some([i \in 1 .. Len(sr[1]) |->
                                    <<sr[1][i][1] - 1, sr[1][i][2] + 1>>])]

\* _run_full_optimization: config.YAW_ANGLE_MIN / MAX are set to the adaptive
\* range and restored; self.optimizer.optimize() takes no range
FullOptimizationCall(c) ==
    [method |-> "optimize", search_ranges |-> None]

\* stage2_optimize(prediction, actual_conditions, validation_mode) up to the
\* call it makes on self.optimizer
Stage2Optimize ==
    /\ stage = "predicted"
    /\ \E ac \in StageConditions, vm \in Modes :
        /\ actual_conditions' = Some(ac)
        /\ validation_mode' = vm
        /\ IF prediction[1].fallback
           THEN /\ strategy' = "full"
                /\ engine_call' = Some(FullOptimizationCall(ac))
                /\ stage' = "optimized"
                /\ UNCHANGED stage2_validation
           ELSE IF ac.turbulence_intensity = None
           THEN \* is_forecast_valid reads actual['turbulence_intensity']: KeyError
                /\ stage' = "failed"
                /\ UNCHANGED <<stage2_validation, strategy, engine_call>>
           ELSE LET measured == Condition(ac.wind_speed, ac.wind_direction,
                                          ac.turbulence_intensity[1])
                    \* forecast_data is rebuilt from actual_conditions, lines 134-138
                    rebuilt == Condition(ac.wind_speed, ac.wind_direction,
                                         TurbulenceOrDefault(ac))
                    v == IsForecastValid(rebuilt, measured, None, vm)
                IN /\ stage2_validation' = Some(v)
                   /\ stage' = "optimized"
                   /\ IF v.recommendation = "NARROW_SEARCH"
                      THEN /\ strategy' = "narrow"
                           /\ engine_call' = Some(NarrowSearchCall(prediction[1], v))
                      ELSE IF v.recommendation = "MODERATE_SEARCH"
                      THEN /\ strategy' = "moderate"
                           /\ engine_call' = Some(ModerateSearchCall(prediction[1], v))
                      ELSE /\ strategy' = "full"
                           /\ engine_call' = Some(FullOptimizationCall(ac))
    /\ UNCHANGED <<forecast_data, sphinx_raised, prediction>>
    /\ UNCHANGED <<engineVars, validatorVars, rangeVars, yawRangeVars, florisVars, fetchVars>>

\* stage2_optimize is inside _run_full_optimization
FullOptimizationCalled ==
    /\ stage = "optimized"
    /\ engine_call # None
    /\ engine_call[1].method = "optimize"

\* _run_full_optimization: results = self.optimizer.optimize(), up to the solver
RunFullOptimization == FullOptimizationCalled /\ runs = 0 /\ BeginOptimize

\* self.optimizer.optimize() returns its results, or raises
FullOptimizationReturns == FullOptimizationCalled /\ FinishOptimize

NextPredictive ==
    \/ Stage1Predict
    \/ Stage2Optimize
    \/ RunFullOptimization
    \/ FullOptimizationReturns

InitPredictive ==
    EngineInit /\ ValidatorIdle /\ RangeIdle /\ YawRangeIdle /\ PredictiveIdle
        /\ FlorisDefault /\ FetchIdle

SpecPredictive == InitPredictive /\ [][NextPredictive]_vars


\* lines 150-157 of stage2_optimize: the _run_* method chosen for a validation
\* result, and the call that method makes on self.optimizer
Stage2Dispatch ==
    /\ stage = "validated"
    /\ LET v == stage2_validation[1] IN
       IF v.recommendation = "NARROW_SEARCH"
       THEN /\ strategy' = "narrow"
            /\ engine_call' = Some(NarrowSearchCall(prediction[1], v))
       ELSE IF v.recommendation = "MODERATE_SEARCH"
       THEN /\ strategy' = "moderate"
            /\ engine_call' = Some(ModerateSearchCall(prediction[1], v))
       ELSE /\ strategy' = "full"
            /\ engine_call' = Some(FullOptimizationCall(actual_conditions[1]))
    /\ stage' = "optimized"
    /\ UNCHANGED <<forecast_data, sphinx_raised, prediction, actual_conditions,
                   validation_mode, stage2_validation>>
    /\ UNCHANGED <<engineVars, validatorVars, rangeVars, yawRangeVars, florisVars, fetchVars>>

\* a non-fallback prediction and the validation of a day-ahead forecast against
\* the measured conditions, as is_forecast_valid returns it
DispatchInit ==
    /\ \E p \in ParsedPredictions : prediction = Some(p)
    /\ sphinx_raised = FALSE
    /\ validation_mode \in Modes
    /\ \E f \in Conditions, a \in Conditions :
        /\ forecast_data = Some(Condition(f.wind_speed, f.wind_direction,
                                          Some(f.turbulence_intensity)))
        /\ actual_conditions = Some(Condition(a.wind_speed, a.wind_direction,
                                              Some(a.turbulence_intensity)))
        /\ stage2_validation = Some(IsForecastValid(f, a, None, validation_mode))
    /\ strategy = "" /\ engine_call = None /\ stage = "validated"

InitDispatch ==
    EngineInit /\ ValidatorIdle /\ RangeIdle /\ YawRangeIdle /\ DispatchInit
        /\ FlorisDefault /\ FetchIdle

SpecDispatch == InitDispatch /\ [][Stage2Dispatch]_vars


(***************************************************************************)
(* The constructor: WakeSteeringOptimizer.__init__ and _setup_floris       *)
(***************************************************************************)
\* arguments a caller may pass: omitted, or a direction in whole degrees and a
\* speed in tenths of m/s
ConstructorDirections == {None} \cup {Some(d) : d \in 0 .. 359}
ConstructorSpeeds == {None} \cup {Some(ws) : ws \in {0, 30, 80, 250}}

ConstructInit ==
    /\ ctor_args \in [wind_direction : ConstructorDirections,
                      wind_speed : ConstructorSpeeds]
    /\ fmodel_conditions = None

\* WakeSteeringOptimizer(wind_direction, wind_speed)
Construct ==
    /\ fmodel_conditions = None
    /\ fmodel_conditions' = Some(SetupFloris(ctor_args))
    /\ UNCHANGED <<ctor_args, engineVars, validatorVars, rangeVars, yawRangeVars,
                   predictiveVars, fetchVars>>

InitConstruct ==
    EngineInit /\ ValidatorIdle /\ RangeIdle /\ YawRangeIdle /\ PredictiveIdle
        /\ ConstructInit /\ FetchIdle

SpecConstruct == InitConstruct /\ [][Construct]_vars


(***************************************************************************)
(* The retry loop of fetch_location: nrel_fetch.py                         *)
(***************************************************************************)
MaxRetries == 8     \* largest max_retries tried

\* the requests.RequestException subclasses a request may raise
RequestErrors == {"Timeout", "HTTPError", "ConnectionError"}

\* the test for the last attempt made one attempt too late
LastAttemptOffByOne(a, m) == a = m

\* if attempt == max_retries - 1
LastAttempt(a, m) == a = m - 1

\* backoff *= 2
NextBackoff(b) == b * 2

\* backoff = 1.0 and the loop about to start
FetchInit ==
    /\ max_retries \in 0 .. MaxRetries
    /\ attempt = 0
    /\ backoff = 1
    /\ sleeps = << >>
    /\ requests = 0
    /\ last_error = ""
    /\ fetch_pc = "request"

\* one pass of the try block, lines 54-61: the request succeeds and the loop is
\* left, or it raises a RequestException, re-raised on the last attempt
Request ==
    /\ fetch_pc = "request"
    /\ attempt < max_retries
    /\ requests' = requests + 1
    /\ \/ /\ fetch_pc' = "fetched"
          /\ UNCHANGED last_error
       \/ \E e \in RequestErrors :
            /\ last_error' = e
            /\ fetch_pc' = IF LastAttempt(attempt, max_retries) THEN "raised" ELSE "sleep"
    /\ UNCHANGED <<max_retries, attempt, backoff, sleeps>>
    /\ UNCHANGED <<engineVars, validatorVars, rangeVars, yawRangeVars,
                   predictiveVars, florisVars>>

\* lines 62-63, then the next value of range(max_retries)
Sleep ==
    /\ fetch_pc = "sleep"
    /\ sleeps' = Append(sleeps, backoff)
    /\ backoff' = NextBackoff(backoff)
    /\ attempt' = attempt + 1
    /\ fetch_pc' = "request"
    /\ UNCHANGED <<max_retries, requests, last_error>>
    /\ UNCHANGED <<engineVars, validatorVars, rangeVars, yawRangeVars,
                   predictiveVars, florisVars>>

\* range(max_retries) is exhausted without a break: line 65 reads obj, which was
\* never bound
LoopExhausted ==
    /\ fetch_pc = "request"
    /\ attempt >= max_retries
    /\ last_error' = "UnboundLocalError"
    /\ fetch_pc' = "raised"
    /\ UNCHANGED <<max_retries, attempt, backoff, sleeps, requests>>
    /\ UNCHANGED <<engineVars, validatorVars, rangeVars, yawRangeVars,
                   predictiveVars, florisVars>>

NextFetch ==
    \/ Request
    \/ Sleep
    \/ LoopExhausted

InitFetch ==
    EngineInit /\ ValidatorIdle /\ RangeIdle /\ YawRangeIdle /\ PredictiveIdle
        /\ FlorisDefault /\ FetchInit

\* the function runs to its end: a request returns or raises within its
\* timeout, and a sleep ends
SpecFetch == InitFetch /\ [][NextFetch]_vars /\ WF_vars(NextFetch)


(***************************************************************************)
(* Properties of the optimization engine                                   *)
(***************************************************************************)
\* the evaluations recorded by the current (or last) optimization call
RunResults == SubSeq(all_results, run_start + 1, Len(all_results))

\* optimize_with_ranges has returned a result
CompletedWithRanges ==
    pc = "idle" /\ method = "optimize_with_ranges" /\ ret # None

\* the enumeration loop of optimize_with_ranges has run to its end
LoopDone ==
    /\ method = "optimize_with_ranges"
    /\ \/ pc = "enumerate" /\ idx = Len(yaw_combinations)
       \/ pc = "idle" /\ raised # "OracleFailure"

\* lexicographic order on yaw vectors of equal length, turbine 0 most significant
LexLess(a, b) ==
    \E i \in 1 .. Len(a) :
        /\ a[i] < b[i]
        /\ \A j \in 1 .. (i - 1) : a[j] = b[j]

\* the combinations of a search space: one angle of [min_i, max_i] per turbine
Box(sr) == {c \in [1 .. Len(sr) -> -YawHi .. YawHi] :
                \A i \in 1 .. Len(sr) : sr[i][1] <= c[i] /\ c[i] <= sr[i][2]}

WellFormed(sr) == \A i \in 1 .. Len(sr) : sr[i][1] <= sr[i][2]

RECURSIVE ProductOfWidths(_)
ProductOfWidths(sr) ==
    IF sr = << >> THEN 1 ELSE (sr[1][2] - sr[1][1] + 1) * ProductOfWidths(Tail(sr))

\* C1: when optimize_with_ranges has returned, optimal_power is at least the
\* power of every combination evaluated in that run, and optimal_yaw_angles is
\* the first combination, in enumeration order, whose power equals that maximum.
C1_TrueMaximumFirstWins ==
    CompletedWithRanges =>
        LET r == ret[1] IN
        /\ optimal_power = Some(r.optimal_power)
        /\ optimal_yaw_angles = r.optimal_yaw_angles
        /\ \A i \in 1 .. Len(RunResults) : r.optimal_power >= RunResults[i].power
        /\ \E i \in 1 .. Len(RunResults) :
            /\ RunResults[i].yaw_angles = r.optimal_yaw_angles[1]
            /\ RunResults[i].power = r.optimal_power
            /\ \A j \in 1 .. (i - 1) : RunResults[j].power < r.optimal_power

\* a returned run in which the maximum is reached twice and some combination is
\* below it
C1_Witness ==
    /\ CompletedWithRanges
    /\ \E i, j, k \in 1 .. Len(RunResults) :
        /\ i < j
        /\ RunResults[i].power = ret[1].optimal_power
        /\ RunResults[j].power = ret[1].optimal_power
        /\ RunResults[k].power < ret[1].optimal_power

\* C2: when the enumeration of optimize_with_ranges has run to its end, the run
\* has recorded exactly one evaluation for each combination of the Cartesian
\* product of the ranges [min_i, max_i], in lexicographic order with turbine 0
\* varying slowest; for ranges with min_i <= max_i their number is the product
\* of (max_i - min_i + 1).
C2_OneEvaluationPerCombination ==
    LoopDone =>
        /\ \A c \in Box(search_ranges) :
            Cardinality({i \in 1 .. Len(RunResults) : RunResults[i].yaw_angles = c}) = 1
        /\ \A i \in 1 .. Len(RunResults) : RunResults[i].yaw_angles \in Box(search_ranges)
        /\ \A i, j \in 1 .. Len(RunResults) :
            i < j => LexLess(RunResults[i].yaw_angles, RunResults[j].yaw_angles)
        /\ WellFormed(search_ranges) => Len(RunResults) = ProductOfWidths(search_ranges)

\* a second run on the same optimizer that enumerated a 2 x 2 space to its end
C2_Witness ==
    /\ LoopDone
    /\ run_start > 0
    /\ WellFormed(search_ranges)
    /\ \A i \in 1 .. Len(search_ranges) : search_ranges[i][2] = search_ranges[i][1] + 1
    /\ Len(RunResults) = 4

\* C10: every optimization run simulates the all-zero yaw vector before any
\* other yaw vector and reports the power of that simulation as baseline_power,
\* whether or not the all-zero vector is in the search space; when every range
\* includes 0, the reported baseline is the power recorded for the all-zero
\* combination.
C10_BaselineFirst ==
    LET zero == [i \in 1 .. n_turbines |-> 0] IN
    /\ calls # << >> => calls[1] = zero
    /\ pc \in {"enumerate", "de", "slsqp"} =>
        /\ zero \in DOMAIN oracle
        /\ baseline_power = Some(oracle[zero].power)
    /\ (pc = "idle" /\ ret # None
            /\ method \in {"optimize_with_ranges", "optimize", "optimize_fast"}) =>
        /\ zero \in DOMAIN oracle
        /\ oracle[zero].ok
        /\ ret[1].baseline_power = oracle[zero].power
    /\ (CompletedWithRanges /\ zero \in Box(search_ranges)) =>
        /\ \E i \in 1 .. Len(RunResults) : RunResults[i].yaw_angles = zero
        /\ \A i \in 1 .. Len(RunResults) :
            RunResults[i].yaw_angles = zero => RunResults[i].power = ret[1].baseline_power

\* a returned enumeration whose search space does not contain the all-zero
\* vector, with a baseline above the optimum found
C10_Witness ==
    /\ CompletedWithRanges
    /\ [i \in 1 .. n_turbines |-> 0] \notin Box(search_ranges)
    /\ ret[1].baseline_power > ret[1].optimal_power

\* one of the three optimization methods was called last
OptimizeMethods == {"optimize_with_ranges", "optimize", "optimize_fast"}

\* the last optimization call has returned a result
ResultReturned == pc = "idle" /\ ret # None /\ method \in OptimizeMethods

\* C11: the result returned by a run of optimize_with_ranges holds only that
\* run's evaluations: its all_results is the list of the evaluations of this
\* run, one per combination of this run's search space, with nothing carried
\* over from earlier runs on the same optimizer.
C11_FreshResultPerRun ==
    CompletedWithRanges =>
        /\ ret[1].all_results = RunResults
        /\ WellFormed(search_ranges) =>
                Len(ret[1].all_results) = ProductOfWidths(search_ranges)

\* C12: a failed oracle evaluation ends the optimization call with the failure
\* raised to the caller and nothing returned; every power recorded in
\* all_results, tracked as best so far, or returned as optimum is the power the
\* oracle produced for that yaw vector, never a value standing in for a failure.
C12_OracleFailureReported ==
    /\ \A k \in 1 .. Len(calls) : calls[k] \in DOMAIN oracle
    /\ \A k \in 1 .. (Len(calls) - 1) : oracle[calls[k]].ok
    /\ (method \in OptimizeMethods /\ calls # << >> /\ ~oracle[calls[Len(calls)]].ok) =>
            /\ pc = "idle"
            /\ raised = "OracleFailure"
            /\ ret = None
    /\ \A i \in 1 .. Len(all_results) :
            /\ all_results[i].yaw_angles \in DOMAIN oracle
            /\ oracle[all_results[i].yaw_angles] = Ok(all_results[i].power)
    /\ (pc = "enumerate" /\ best_yaw # None) => oracle[best_yaw[1]] = Ok(best_power)
    /\ ResultReturned =>
            /\ ret[1].optimal_yaw_angles # None
            /\ oracle[ret[1].optimal_yaw_angles[1]] = Ok(ret[1].optimal_power)

\* an enumeration that recorded an evaluation and then met a failing combination
C12_Witness ==
    /\ method = "optimize_with_ranges"
    /\ pc = "idle"
    /\ raised = "OracleFailure"
    /\ Len(RunResults) >= 1
    /\ Len(calls) >= 4
    /\ ~oracle[calls[Len(calls)]].ok

\* C13: when the oracle fails for a combination during optimize_with_ranges the
\* enumeration goes on: once the call is over every combination of the search
\* space has been handed to the oracle, and the call did not end with the
\* oracle's failure.
C13_SkipAndContinue ==
    (/\ pc = "idle"
     /\ method = "optimize_with_ranges"
     /\ Len(search_ranges) = n_turbines
     /\ Len(calls) >= 2) =>
        /\ \A c \in Box(search_ranges) : \E k \in 3 .. Len(calls) : calls[k] = c
        /\ raised # "OracleFailure"

\* no optimization call on this optimizer has returned a result: each of the
\* three methods stores optimal_yaw_angles only on its way to a normal return
NoRunCompleted == optimal_yaw_angles = None

\* C14: get_results raises and returns nothing in every state in which no
\* optimization run has completed (also after a run that failed part-way), and
\* returns a result once a run has completed.
C14_GetResultsNeedsCompletedRun ==
    (pc = "idle" /\ method = "get_results") =>
        IF NoRunCompleted
        THEN raised # "" /\ ret = None
        ELSE raised = "" /\ ret # None

\* C15: no result is ever returned with a baseline_power of 0: get_results, and
\* every optimize call returning through it, raises instead, so that
\* improvement_percent is never infinite and never not-a-number.
C15_ZeroBaselineRaises ==
    (pc = "idle" /\ ret # None) =>
        /\ ret[1].baseline_power # 0
        /\ ret[1].improvement_percent.kind = "num"

C21_MalformedSpaceRejected ==
    (/\ pc = "idle"
     /\ method = "optimize_with_ranges"
     /\ Len(search_ranges) = n_turbines
     /\ ~WellFormed(search_ranges)
     /\ \A k \in 1 .. Len(calls) : oracle[calls[k]].ok) =>
        /\ ret = None
        /\ raised = "ConfigurationError"

\* C27: a result returned by get_results has its baseline_power, optimal_power
\* and optimal_yaw_angles from one and the same run: the optimal_power is the
\* power that run simulated at the optimal_yaw_angles, and the baseline_power the
\* power it simulated at zero yaw.
C27_ResultFromOneRun ==
    (/\ pc = "idle"
     /\ method = "get_results"
     /\ ret # None
     /\ ret[1].optimal_yaw_angles # None) =>
        /\ oracle[ret[1].optimal_yaw_angles[1]] = Ok(ret[1].optimal_power)
        /\ oracle[ZeroYaw] = Ok(ret[1].baseline_power)

\* C28: for a search space with min_i <= max_i for every turbine and an oracle
\* that succeeded on every call of the run, optimize_with_ranges returns a result
\* whose optimal_yaw_angles is one of the enumerated combinations, whatever the
\* powers are.
C28_NonEmptySpaceReturns ==
    (/\ pc = "idle"
     /\ method = "optimize_with_ranges"
     /\ Len(search_ranges) = n_turbines
     /\ WellFormed(search_ranges)
     /\ \A k \in 1 .. Len(calls) : oracle[calls[k]].ok) =>
        /\ ret # None
        /\ ret[1].optimal_yaw_angles # None
        /\ ret[1].optimal_yaw_angles[1] \in Box(search_ranges)

(***************************************************************************)
(* Properties of the forecast validator                                    *)
(***************************************************************************)
\* C3: valid is the AND of speed_ok, direction_ok and turbulence_ok, and the
\* recommendation is NARROW_SEARCH exactly when all three checks pass,
\* MODERATE_SEARCH exactly when speed and direction pass and turbulence fails,
\* FULL_SEARCH exactly when speed or direction fails; forecast (8.0 m/s, 270,
\* 0.06) against actual (10.2 m/s, 285, 0.09) under the conservative thresholds
\* gives FULL_SEARCH.
C3_RecommendationTiers ==
    validation # None =>
        LET v == validation[1]
            t == SelectThresholds(thresholds, mode)
        IN
        /\ v.direction_ok <=> (v.deviations.direction <= t.wind_direction.absolute)
        /\ v.turbulence_ok <=> (v.deviations.turbulence <= t.turbulence_intensity.absolute)
        /\ v.valid <=> (v.speed_ok /\ v.direction_ok /\ v.turbulence_ok)
        /\ (v.recommendation = "NARROW_SEARCH")
                <=> (v.speed_ok /\ v.direction_ok /\ v.turbulence_ok)
        /\ (v.recommendation = "MODERATE_SEARCH")
                <=> (v.speed_ok /\ v.direction_ok /\ ~v.turbulence_ok)
        /\ (v.recommendation = "FULL_SEARCH") <=> (~v.speed_ok \/ ~v.direction_ok)
        /\ (/\ forecast = Condition(80, 270, 60)
            /\ actual = Condition(102, 285, 90)
            /\ thresholds = None
            /\ mode = "conservative") => v.recommendation = "FULL_SEARCH"

\* the example of the claim has been validated, with speed and direction failing
C3_Witness ==
    /\ validation # None
    /\ forecast = Condition(80, 270, 60)
    /\ actual = Condition(102, 285, 90)
    /\ thresholds = None
    /\ mode = "conservative"
    /\ ~validation[1].speed_ok
    /\ ~validation[1].direction_ok

\* C7: speed_ok is true exactly when the absolute speed deviation is at most the
\* absolute threshold or the relative deviation (deviation / forecast speed) is at
\* most the relative threshold; with a forecast speed of 0 the relative deviation
\* is reported as 0 and a result is still returned; forecast 2.0 m/s against
\* actual 2.9 m/s under the conservative thresholds gives speed_ok true.
C7_SpeedLenientOr ==
    validation # None =>
        LET v == validation[1]
            t == SelectThresholds(thresholds, mode)
            dev == IF actual.wind_speed >= forecast.wind_speed
                   THEN actual.wind_speed - forecast.wind_speed
                   ELSE forecast.wind_speed - actual.wind_speed
            relative_within ==
                IF forecast.wind_speed = 0 THEN 0 <= t.wind_speed.relative
                ELSE dev * 100 <= t.wind_speed.relative * forecast.wind_speed
        IN
        /\ v.deviations.speed_abs = dev
        /\ v.speed_ok <=> (dev <= t.wind_speed.absolute \/ relative_within)
        /\ forecast.wind_speed = 0 => v.deviations.speed_rel.num = 0
        /\ forecast.wind_speed > 0 =>
            v.deviations.speed_rel = [num |-> dev, den |-> forecast.wind_speed]
        /\ (/\ forecast.wind_speed = 20
            /\ actual.wind_speed = 29
            /\ thresholds = None
            /\ mode = "conservative") => v.speed_ok

\* forecast 2.0 m/s, actual 2.9 m/s, conservative: 0.9 m/s passes the absolute
\* threshold while 45 % fails the relative one
C7_Witness ==
    /\ validation # None
    /\ forecast.wind_speed = 20
    /\ actual.wind_speed = 29
    /\ thresholds = None
    /\ mode = "conservative"
    /\ validation[1].speed_ok
    /\ validation[1].deviations.speed_rel.num * 100
            > 12 * validation[1].deviations.speed_rel.den

\* C8: for forecast and actual directions in [0, 360) the reported direction
\* deviation is min(|a-b|, 360-|a-b|), the shorter way round the circle; it lies
\* in [0, 180] and is the same with forecast and actual swapped; the deviation
\* of 359 and 1 is 2.
C8_CircularDirection ==
    validation # None =>
        LET a == actual.wind_direction
            b == forecast.wind_direction
            dev == validation[1].deviations.direction
            straight == IF a >= b THEN a - b ELSE b - a
            swapped == IsForecastValid(actual, forecast, thresholds, mode)
        IN
        /\ dev = (IF straight <= 360 - straight THEN straight ELSE 360 - straight)
        /\ 0 <= dev /\ dev <= 180
        /\ (a + dev) % 360 = b \/ (b + dev) % 360 = a
        /\ \A k \in 0 .. (dev - 1) : (a + k) % 360 # b /\ (b + k) % 360 # a
        /\ swapped.deviations.direction = dev
        /\ (b = 359 /\ a = 1) => dev = 2

\* forecast 359 degrees against actual 1 degree has been validated
C8_Witness ==
    /\ validation # None
    /\ forecast.wind_direction = 359
    /\ actual.wind_direction = 1
    /\ validation[1].deviations.direction = 2
    /\ validation[1].direction_ok

\* C9: get_recommended_yaw_range returns the symmetric range of the decision
\* table: speed < 7 gives 12 (TI < 0.06), 10 (0.06 <= TI < 0.12), 8 (TI >= 0.12);
\* speed in [7, 11) gives 8, 5, 3 for the same bands; speed >= 11 gives (0, 0)
\* for TI > 0.12 and 3 for TI <= 0.12; exactly one row applies to every input.
C9_DecisionTable ==
    yaw_range # None =>
        LET ws == wind_speed
            ti == turbulence_intensity
            rows == {
                [applies |-> ws < 70 /\ ti < 60, range |-> 12],
                [applies |-> ws < 70 /\ 60 <= ti /\ ti < 120, range |-> 10],
                [applies |-> ws < 70 /\ ti >= 120, range |-> 8],
                [applies |-> 70 <= ws /\ ws < 110 /\ ti < 60, range |-> 8],
                [applies |-> 70 <= ws /\ ws < 110 /\ 60 <= ti /\ ti < 120, range |-> 5],
                [applies |-> 70 <= ws /\ ws < 110 /\ ti >= 120, range |-> 3],
                [applies |-> ws >= 110 /\ ti > 120, range |-> 0],
                [applies |-> ws >= 110 /\ ti <= 120, range |-> 3]}
        IN
        /\ Cardinality({r \in rows : r.applies}) = 1
        /\ \A r \in rows : r.applies => yaw_range[1] = <<-r.range, r.range>>

\* the range has been computed on two band limits at once: 11 m/s and TI 0.12
C9_Witness ==
    /\ yaw_range = Some(<<-3, 3>>)
    /\ wind_speed = 110
    /\ turbulence_intensity = 120

\* the threshold profiles is_forecast_valid documents
KnownModes == {"conservative", "tight", "relaxed"}

\* C22: is_forecast_valid called without custom thresholds and with a profile
\* name other than conservative, tight and relaxed returns no validation result.
C22_UnknownProfileRejected ==
    ~(validation # None /\ thresholds = None /\ mode \notin KnownModes)

\* the speed deviation exceeds the absolute threshold and the relative threshold
\* times the forecast speed (speeds in tenths of m/s, relative threshold in percent)
SpeedBeyondBoth ==
    LET t == SelectThresholds(thresholds, mode)
        dev == IF actual.wind_speed >= forecast.wind_speed
               THEN actual.wind_speed - forecast.wind_speed
               ELSE forecast.wind_speed - actual.wind_speed
    IN /\ dev > t.wind_speed.absolute
       /\ dev * 100 > t.wind_speed.relative * forecast.wind_speed

\* C29 as stated: for every forecast wind speed >= 0, 0 included, speed_ok is
\* false whenever the absolute speed deviation exceeds the absolute threshold
\* and also exceeds the relative threshold multiplied by the forecast speed.
C29_SpeedFailsBeyondBoth ==
    (validation # None /\ SpeedBeyondBoth) => ~validation[1].speed_ok

\* C29 amended: for every forecast wind speed > 0, speed_ok is false whenever
\* the absolute speed deviation exceeds the absolute threshold and also exceeds
\* the relative threshold multiplied by the forecast speed.
C29_SpeedFailsBeyondBothPositive ==
    (validation # None /\ forecast.wind_speed > 0 /\ SpeedBeyondBoth) =>
        ~validation[1].speed_ok

\* forecast 2.0 m/s against actual 10.2 m/s under the relaxed thresholds: 8.2 m/s
\* is beyond 1.5 m/s and beyond 15 % of 2.0 m/s
C29_Witness ==
    /\ validation # None
    /\ forecast.wind_speed = 20
    /\ actual.wind_speed = 102
    /\ thresholds = None
    /\ mode = "relaxed"
    /\ SpeedBeyondBoth
    /\ ~validation[1].speed_ok

(***************************************************************************)
(* Properties of the search range builder                                  *)
(***************************************************************************)
\* the builder returned a list of ranges
RangesBuilt == range_result # None /\ range_result[1] # None

\* C5: for whole-degree predicted yaws the range of each turbine is
\* [pred - d, pred + d] with min raised to at least -15 and max lowered to at
\* most +15, d = b under NARROW_SEARCH and b + 1 under MODERATE_SEARCH, b = 1, 2,
\* 3 for confidence high, medium, low; pred -14, low, NARROW_SEARCH gives
\* [-15, -11].
C5_RangeAroundPrediction ==
    (range_result # None /\ recommendation # "FULL_SEARCH"
        /\ predicted_yaws # << >> /\ confidence # << >>) =>
        /\ range_result[1] # None
        /\ \A i \in 1 .. Len(range_result[1][1]) :
            (predicted_yaws[i] % 2 = 0 /\ confidence[i] \in {"high", "medium", "low"}) =>
                LET pred == predicted_yaws[i] \div 2
                    b == CASE confidence[i] = "high" -> 1
                           [] confidence[i] = "medium" -> 2
                           [] confidence[i] = "low" -> 3
                    d == IF recommendation = "NARROW_SEARCH" THEN b ELSE b + 1
                    lo == IF pred - d < -15 THEN -15 ELSE pred - d
                    hi == IF pred + d > 15 THEN 15 ELSE pred + d
                IN /\ range_result[1][1][i] = <<lo, hi>>
                   /\ (pred = -14 /\ confidence[i] = "low"
                            /\ recommendation = "NARROW_SEARCH")
                        => range_result[1][1][i] = <<-15, -11>>

\* the clamp example: -14 degrees, low confidence, NARROW_SEARCH
C5_Witness ==
    /\ RangesBuilt
    /\ recommendation = "NARROW_SEARCH"
    /\ Len(range_result[1][1]) = 2
    /\ predicted_yaws[1] = -28
    /\ confidence[1] = "low"
    /\ range_result[1][1][1] = <<-15, -11>>
    /\ confidence[2] = "medium"

\* C6: every (min, max) pair returned by calculate_search_range_from_prediction
\* satisfies -15 <= min <= max <= 15, for every predicted yaw, confidence and
\* non-FULL recommendation.
C6_RangeWithinCapNeverEmpty ==
    RangesBuilt =>
        \A i \in 1 .. Len(range_result[1][1]) :
            LET r == range_result[1][1][i] IN
            -15 <= r[1] /\ r[1] <= r[2] /\ r[2] <= 15

\* C16: under a FULL_SEARCH recommendation calculate_search_range_from_prediction
\* returns None and never a list of ranges, whatever predicted_yaws and
\* confidence are.
C16_FullSearchReturnsNone ==
    (range_result # None /\ recommendation = "FULL_SEARCH") => range_result[1] = None

\* C17: for a non-FULL recommendation the returned list is as long as
\* predicted_yaws and as long as confidence, and its i-th pair is the range
\* computed from the i-th predicted yaw and the i-th confidence.
C17_OneRangePerPrediction ==
    (range_result # None /\ recommendation # "FULL_SEARCH") =>
        /\ range_result[1] # None
        /\ Len(range_result[1][1]) = Len(predicted_yaws)
        /\ Len(range_result[1][1]) = Len(confidence)
        /\ \A i \in 1 .. Len(range_result[1][1]) :
            range_result[1][1][i] =
                TurbineRange(predicted_yaws[i], Delta(confidence[i], recommendation))

(***************************************************************************)
(* Properties of the orchestrator                                          *)
(***************************************************************************)
\* C4: for a non-fallback prediction stage2_optimize runs the full optimization
\* whenever the day-ahead forecast and the actual conditions differ beyond the
\* speed or direction threshold, and the moderate search when only turbulence
\* differs beyond its threshold.
C4_Stage2FollowsForecastDeviation ==
    (stage = "optimized" /\ ~prediction[1].fallback) =>
        LET fd == forecast_data[1]
            ac == actual_conditions[1]
            v == IsForecastValid(
                    Condition(fd.wind_speed, fd.wind_direction, TurbulenceOrDefault(fd)),
                    Condition(ac.wind_speed, ac.wind_direction, TurbulenceOrDefault(ac)),
                    None, validation_mode)
        IN /\ v.recommendation = "FULL_SEARCH" => strategy = "full"
           /\ v.recommendation = "MODERATE_SEARCH" => strategy = "moderate"

\* C19: when stage 2 ran the full optimization and it returned, every optimal
\* yaw angle lies within the range get_recommended_yaw_range gives for the
\* actual conditions; with the range (0, 0) all returned angles are 0.
C19_FullOptimizationWithinRecommendedRange ==
    (stage = "optimized" /\ strategy = "full" /\ pc = "idle" /\ ret # None) =>
        LET ac == actual_conditions[1]
            yr == GetRecommendedYawRange(ac.wind_speed, TurbulenceOrDefault(ac))
            y == ret[1].optimal_yaw_angles[1]
        IN \A i \in 1 .. Len(y) : yr[1] <= y[i] /\ y[i] <= yr[2]

\* C20: when the predictor raised, stage1_predict returned the fallback
\* prediction (every predicted yaw 0, every confidence low, marked fallback), and
\* a prediction marked fallback only then; stage2_optimize given a fallback
\* prediction computes no validation and calls the full optimization.
C20_FallbackOnPredictorFailure ==
    /\ stage # "new" =>
        /\ prediction # None
        /\ prediction[1].fallback <=> sphinx_raised
        /\ sphinx_raised =>
            /\ \A i \in 1 .. Len(prediction[1].predicted_yaws) :
                    prediction[1].predicted_yaws[i] = 0
            /\ \A i \in 1 .. Len(prediction[1].confidence) :
                    prediction[1].confidence[i] = "low"
    /\ (stage \in {"optimized", "failed"} /\ prediction[1].fallback) =>
        /\ stage = "optimized"
        /\ stage2_validation = None
        /\ strategy = "full"
        /\ engine_call = Some([method |-> "optimize", search_ranges |-> None])

\* the predictor raised, stage 2 was given the fallback with actual conditions
\* that lack a turbulence reading, and the full optimization returned
C20_Witness ==
    /\ sphinx_raised
    /\ stage = "optimized"
    /\ actual_conditions[1].turbulence_intensity = None
    /\ actual_conditions[1].wind_speed # forecast_data[1].wind_speed
    /\ method = "optimize"
    /\ pc = "idle"
    /\ ret # None

\* C23: the search space the MODERATE_SEARCH branch hands to
\* optimize_with_ranges has, for each turbine with a whole-degree prediction,
\* the range [pred - (b + 1), pred + (b + 1)] cut to [-15, 15], b = 1, 2, 3 for
\* that turbine's predicted confidence high, medium, low; four turbines at
\* medium confidence and no cut give 7^4 = 2401 combinations.
C23_ModerateRangeFromConfidence ==
    (stage = "optimized" /\ strategy = "moderate") =>
        LET sr == engine_call[1].search_ranges[1]
            pred == prediction[1]
        IN
        /\ \A i \in 1 .. Len(sr) :
            (pred.predicted_yaws[i] % 2 = 0
                /\ pred.confidence[i] \in {"high", "medium", "low"}) =>
              LET y == pred.predicted_yaws[i] \div 2
                  b == CASE pred.confidence[i] = "high" -> 1
                         [] pred.confidence[i] = "medium" -> 2
                         [] pred.confidence[i] = "low" -> 3
              IN sr[i] = <<Max(-15, Min(15, y - (b + 1))), Min(15, Max(-15, y + (b + 1)))>>
        /\ (/\ Len(sr) = 4
            /\ \A i \in 1 .. 4 : pred.confidence[i] = "medium"
            /\ \A i \in 1 .. 4 : -12 <= pred.predicted_yaws[i] \div 2
            /\ \A i \in 1 .. 4 : pred.predicted_yaws[i] \div 2 <= 12
            /\ \A i \in 1 .. 4 : pred.predicted_yaws[i] % 2 = 0)
                => ProductOfWidths(sr) = 2401

\* C24: every search space stage2_optimize passes to optimize_with_ranges has
\* one (min, max) pair per turbine of the optimizer's layout.
C24_OneRangePerTurbine ==
    (stage = "optimized" /\ engine_call # None
        /\ engine_call[1].method = "optimize_with_ranges") =>
        /\ engine_call[1].search_ranges # None
        /\ Len(engine_call[1].search_ranges[1]) = ConfigTurbines

\* C25: the optimization stage2_optimize runs evaluates the oracle under the
\* actual conditions it was given: the wind speed, direction and turbulence the
\* FLORIS model is set to are those of actual_conditions.
C25_OracleUnderActualConditions ==
    (stage = "optimized" /\ engine_call # None) =>
        LET ac == actual_conditions[1] IN
        fmodel_conditions =
            Some(Condition(ac.wind_speed, ac.wind_direction, TurbulenceOrDefault(ac)))

\* C26: an optimizer constructed with an explicit wind_direction in [0, 360) and
\* an explicit wind_speed >= 0 has its oracle set to exactly these; the config
\* default is used only for an omitted argument.
C26_ExplicitConditionsUsed ==
    fmodel_conditions # None =>
        LET f == fmodel_conditions[1] IN
        /\ f.wind_direction = (IF ctor_args.wind_direction = None THEN WIND_DIRECTION
                               ELSE ctor_args.wind_direction[1])
        /\ f.wind_speed = (IF ctor_args.wind_speed = None THEN WIND_SPEED
                           ELSE ctor_args.wind_speed[1])

\* the retry loop of fetch_location is over
FetchOver == fetch_pc \in {"fetched", "raised"}

\* the state of the retry loop for max_retries >= 1
RetryDiscipline ==
    max_retries >= 1 =>
        /\ requests <= max_retries
        /\ Len(sleeps) <= max_retries - 1
        /\ \A i \in 1 .. Len(sleeps) : sleeps[i] = 2 ^ (i - 1)
        /\ fetch_pc = "request" => requests = Len(sleeps)
        /\ fetch_pc \in {"sleep", "fetched", "raised"} => requests = Len(sleeps) + 1
        /\ fetch_pc = "raised" =>
            /\ requests = max_retries
            /\ last_error \in RequestErrors

\* C30: for max_retries >= 1 fetch_location makes at most max_retries requests,
\* makes none after the first success, waits 1, 2, 4, ... seconds between
\* consecutive failed attempts, re-raises the request error after the
\* max_retries-th failure without waiting again, and the loop ends.
C30_BoundedRetries ==
    /\ []RetryDiscipline
    /\ [][fetch_pc = "fetched" => fetch_pc' = "fetched" /\ requests' = requests]_vars
    /\ <>FetchOver

\* three requests failed, with waits of 1 and 2 seconds between them
C30_Witness ==
    /\ max_retries = 3
    /\ fetch_pc = "raised"
    /\ requests = 3
    /\ sleeps = <<1, 2>>

====
